---- MODULE Spec2Model ----
(***************************************************************************)
(* Model of the Telegram MCP server (src/src/telegram-server/index.ts):    *)
(* the registry of pending request_user_input calls, the bot's message     *)
(* handler, the per-request timers, the two tools and the SIGINT handler.  *)
(***************************************************************************)
EXTENDS Integers, Sequences, FiniteSets, TLC

\* Bound of the exploration.
MaxCalls == 2       \* request_user_input calls that reach bot.sendMessage

\* Chat identifiers seen by the model, and the configured allow-list.
Chats == {1, 2, 3}
ALLOWED_CHAT_IDS == {1, 2}

\* A text is a sequence of characters; " " stands for any whitespace.
\* The inbound texts: empty, whitespace only, plain, and padded with whitespace.
Texts == {<<>>, <<" ">>, <<"a">>, <<" ", "a">>}
Prompts == {<<"a">>}

\* String.prototype.trim: strips leading and trailing whitespace.
RECURSIVE TrimLeft(_)
TrimLeft(s) ==
  IF s # <<>> /\ Head(s) = " " THEN TrimLeft(Tail(s)) ELSE s

RECURSIVE TrimRight(_)
TrimRight(s) ==
  IF s # <<>> /\ s[Len(s)] = " " THEN TrimRight(SubSeq(s, 1, Len(s) - 1)) ELSE s

Trim(s) == TrimRight(TrimLeft(s))

\* An inbound Telegram message: msg.chat.id and the optional msg.text.
Messages ==
  [chat : Chats, hasText : {TRUE}, text : Texts]
    \cup [chat : Chats, hasText : {FALSE}, text : {<<>>}]

\* const messageText = msg.text ?? ''
MessageText(msg) == IF msg.hasText THEN msg.text ELSE <<>>

\* JavaScript values a tool call can carry as arguments.
JSUndefined == [type |-> "undefined", num |-> 0, str |-> <<>>]
JSNumber(n) == [type |-> "number", num |-> n, str |-> <<>>]
JSString(s) == [type |-> "string", num |-> 0, str |-> s]

JSObject(c, m, p) == [type |-> "object", isNull |-> FALSE, chatId |-> c, message |-> m, prompt |-> p]
JSNull == [type |-> "object", isNull |-> TRUE, chatId |-> JSUndefined, message |-> JSUndefined, prompt |-> JSUndefined]
JSNoArgs == [type |-> "undefined", isNull |-> FALSE, chatId |-> JSUndefined, message |-> JSUndefined, prompt |-> JSUndefined]
JSStringArgs == [type |-> "string", isNull |-> FALSE, chatId |-> JSUndefined, message |-> JSUndefined, prompt |-> JSUndefined]

ToolArgs ==
  {JSObject(JSNumber(c), JSString(p), JSString(p)) : c \in Chats, p \in Prompts}
    \cup {JSObject(JSString(<<"a">>), JSString(p), JSString(p)) : p \in Prompts}
    \cup {JSObject(JSNumber(c), JSUndefined, JSNumber(0)) : c \in {1}}
    \cup {JSNull, JSNoArgs, JSStringArgs}

ToolNames == {"send_message", "request_user_input", "unknown_tool"}

\* McpError(code, message); TransportError is what bot.sendMessage rejects with.
McpError(code, message) == [code |-> code, message |-> message]
NoError == McpError("none", "")
TransportError == McpError("TransportError", "sendMessage failed")
ExtendedErrorCode == [InvalidParams |-> "InvalidParams", MethodNotFound |-> "MethodNotFound", Timeout |-> "Timeout"]

VARIABLES
  pendingRequests,  \* chat id -> index of the call whose PendingRequest is stored, 0 if none
  timers,           \* the armed timers in the order they will fire, as call indices
  calls,            \* the request_user_input calls that passed validation, in call order
  phase,            \* "running", "closed" (server.close() done), "exited"
  last              \* the last handler that ran: the branch it took, the error it threw
                    \* and the bot.sendMessage calls it made, as <<chat, text>>

vars == <<pendingRequests, timers, calls, phase, last>>

CallIds == 1..Len(calls)

Event(op, chat, id, branch, error, wasPending, sent) ==
  [op |-> op, chat |-> chat, id |-> id, branch |-> branch, error |-> error,
   wasPending |-> wasPending, sent |-> sent]

Init ==
  /\ pendingRequests = [c \in Chats |-> 0]
  /\ timers = <<>>
  /\ calls = <<>>
  /\ phase = "running"
  /\ last = Event("init", 0, 0, "none", NoError, FALSE, <<>>)

\* clearTimeout(t): the timer of call i is no longer armed.
ClearTimeout(ts, i) == SelectSeq(ts, LAMBDA x : x # i)

\* Invoking resolve(text) of call i's promise: only the first settlement counts.
Resolve(cs, i, text) ==
  [cs EXCEPT ![i] =
    IF @.state = "pending"
    THEN [@ EXCEPT !.state = "returned", !.text = text, !.invoked = @ + 1]
    ELSE [@ EXCEPT !.invoked = @ + 1]]

\* Invoking reject(error) of call i's promise: only the first settlement counts.
Reject(cs, i, error) ==
  [cs EXCEPT ![i] =
    IF @.state = "pending"
    THEN [@ EXCEPT !.state = "thrown", !.error = error, !.invoked = @ + 1]
    ELSE [@ EXCEPT !.invoked = @ + 1]]


\* A request_user_input call awaiting bot.sendMessage: delivery is the state of
\* that send, state the state of the call ("none" until its promise exists),
\* invoked the number of times the promise's resolve or reject has been called.
NewCall(chatId, prompt) ==
  [chat |-> chatId, prompt |-> prompt, delivery |-> "sending", state |-> "none",
   text |-> <<>>, error |-> NoError, invoked |-> 0, registered |-> FALSE]

\* this.bot.on('message', ...): the sender is not in ALLOWED_CHAT_IDS.
UnauthorizedBranch(chatId) ==
  /\ UNCHANGED <<pendingRequests, timers, calls>>
  /\ last' = Event("message", chatId, 0, "unauthorized", NoError,
                   pendingRequests[chatId] # 0, <<>>)

\* EmptyTextBranch without its pending-request case: a blank message is always dropped.
EmptyTextBranch_AlwaysDrops(chatId) ==
  /\ UNCHANGED <<pendingRequests, timers, calls>>
  /\ last' = Event("message", chatId, 0, "empty_dropped", NoError, FALSE, <<>>)

\* EmptyTextBranch without the clearTimeout: the timer of the rejected call stays armed.
EmptyTextBranch_NoClearTimeout(chatId) ==
  IF pendingRequests[chatId] # 0
  THEN LET i == pendingRequests[chatId]
           error == McpError(ExtendedErrorCode.InvalidParams, "Invalid message type")
       IN /\ timers' = timers
          /\ pendingRequests' = [pendingRequests EXCEPT ![chatId] = 0]
          /\ calls' = Reject(calls, i, error)
          /\ last' = Event("message", chatId, i, "empty_rejected", error, TRUE, <<>>)
  ELSE /\ UNCHANGED <<pendingRequests, timers, calls>>
       /\ last' = Event("message", chatId, 0, "empty_dropped", NoError, FALSE, <<>>)

\* this.bot.on('message', ...): the trimmed text is empty.
EmptyTextBranch(chatId) ==
  IF pendingRequests[chatId] # 0
  THEN LET i == pendingRequests[chatId]
           error == McpError(ExtendedErrorCode.InvalidParams, "Invalid message type")
       IN /\ timers' = ClearTimeout(timers, i)
          /\ pendingRequests' = [pendingRequests EXCEPT ![chatId] = 0]
          /\ calls' = Reject(calls, i, error)
          /\ last' = Event("message", chatId, i, "empty_rejected", error, TRUE, <<>>)
  ELSE /\ UNCHANGED <<pendingRequests, timers, calls>>
       /\ last' = Event("message", chatId, 0, "empty_dropped", NoError, FALSE, <<>>)

\* ReplyBranch without the clearTimeout: the timer of the resolved call stays armed.
ReplyBranch_NoClearTimeout(chatId, messageText) ==
  LET i == pendingRequests[chatId]
  IN /\ timers' = timers
     /\ pendingRequests' = [pendingRequests EXCEPT ![chatId] = 0]
     /\ calls' = Resolve(calls, i, messageText)
     /\ last' = Event("message", chatId, i, "resolved", NoError, TRUE, <<>>)

\* ReplyBranch without the return after resolve: the reply is echoed as well.
ReplyBranch_FallsThroughToEcho(chatId, messageText) ==
  LET i == pendingRequests[chatId]
  IN /\ timers' = ClearTimeout(timers, i)
     /\ pendingRequests' = [pendingRequests EXCEPT ![chatId] = 0]
     /\ calls' = Resolve(calls, i, messageText)
     /\ last' = Event("message", chatId, i, "resolved", NoError, TRUE,
                      << <<chatId, <<"You said: ">> \o messageText>> >>)

\* ReplyBranch without the pendingRequests.delete: the entry outlives the reply.
ReplyBranch_KeepsEntry(chatId, messageText) ==
  LET i == pendingRequests[chatId]
  IN /\ timers' = ClearTimeout(timers, i)
     /\ pendingRequests' = pendingRequests
     /\ calls' = Resolve(calls, i, messageText)
     /\ last' = Event("message", chatId, i, "resolved", NoError, TRUE, <<>>)

\* ReplyBranch resolving with the trimmed text instead of the text as received.
ReplyBranch_ResolvesTrimmed(chatId, messageText) ==
  LET i == pendingRequests[chatId]
  IN /\ timers' = ClearTimeout(timers, i)
     /\ pendingRequests' = [pendingRequests EXCEPT ![chatId] = 0]
     /\ calls' = Resolve(calls, i, Trim(messageText))
     /\ last' = Event("message", chatId, i, "resolved", NoError, TRUE, <<>>)

\* this.bot.on('message', ...): a pending request on the chat takes the text.
ReplyBranch(chatId, messageText) ==
  LET i == pendingRequests[chatId]
  IN /\ timers' = ClearTimeout(timers, i)
     /\ pendingRequests' = [pendingRequests EXCEPT ![chatId] = 0]
     /\ calls' = Resolve(calls, i, messageText)
     /\ last' = Event("message", chatId, i, "resolved", NoError, TRUE, <<>>)

\* EchoBranch sending the echo twice.
EchoBranch_SendsTwice(chatId, messageText) ==
  /\ UNCHANGED <<pendingRequests, timers, calls>>
  /\ last' = Event("message", chatId, 0, "echo", NoError, FALSE,
                   << <<chatId, <<"You said: ">> \o messageText>>,
                      <<chatId, <<"You said: ">> \o messageText>> >>)

\* this.bot.on('message', ...): default behaviour, the echo.
EchoBranch(chatId, messageText) ==
  /\ UNCHANGED <<pendingRequests, timers, calls>>
  /\ last' = Event("message", chatId, 0, "echo", NoError, FALSE,
                   << <<chatId, <<"You said: ">> \o messageText>> >>)

\* OnMessage without the ALLOWED_CHAT_IDS check.
OnMessage_NoAuthorization(msg) ==
  /\ phase # "exited"
  /\ UNCHANGED phase
  /\ LET chatId == msg.chat
         messageText == MessageText(msg)
     IN IF Trim(messageText) = <<>> THEN EmptyTextBranch(chatId)
        ELSE IF pendingRequests[chatId] # 0 THEN ReplyBranch(chatId, messageText)
        ELSE EchoBranch(chatId, messageText)

\* this.bot.on('message', (msg) => ...)
OnMessage(msg) ==
  /\ phase # "exited"
  /\ UNCHANGED phase
  /\ LET chatId == msg.chat
         messageText == MessageText(msg)
     IN IF chatId \notin ALLOWED_CHAT_IDS THEN UnauthorizedBranch(chatId)
        ELSE IF Trim(messageText) = <<>> THEN EmptyTextBranch(chatId)
        ELSE IF pendingRequests[chatId] # 0 THEN ReplyBranch(chatId, messageText)
        ELSE EchoBranch(chatId, messageText)

\* The argument checks shared by both tool handlers; text is args.message or args.prompt.
ArgsError(args, text) ==
  IF args.type # "object" \/ args.isNull
  THEN McpError(ExtendedErrorCode.InvalidParams, "Invalid arguments")
  ELSE IF args.chatId.type # "number" \/ text.type # "string"
  THEN McpError(ExtendedErrorCode.InvalidParams, "Invalid argument types")
  ELSE NoError

\* HandleSendMessage calling bot.sendMessage before it checks the argument types.
HandleSendMessage_SendsBeforeTypeCheck(args, ok) ==
  LET error == ArgsError(args, args.message)
      chatId == args.chatId.num
  IN /\ UNCHANGED <<pendingRequests, timers, calls>>
     /\ last' = IF error.message = "Invalid arguments"
                THEN Event("send_message", 0, 0, "invalid", error, FALSE, <<>>)
                ELSE IF error # NoError
                THEN Event("send_message", 0, 0, "invalid", error, FALSE,
                           << <<chatId, args.message.str>> >>)
                ELSE Event("send_message", chatId, 0, IF ok THEN "sent" ELSE "send_failed",
                           IF ok THEN NoError ELSE TransportError,
                           pendingRequests[chatId] # 0,
                           << <<chatId, args.message.str>> >>)

\* HandleSendMessage dropping the registry entry of the chat it sends to.
HandleSendMessage_DropsEntry(args, ok) ==
  LET error == ArgsError(args, args.message)
      chatId == args.chatId.num
  IN IF error # NoError
     THEN /\ UNCHANGED <<pendingRequests, timers, calls>>
          /\ last' = Event("send_message", 0, 0, "invalid", error, FALSE, <<>>)
     ELSE /\ pendingRequests' = [pendingRequests EXCEPT ![chatId] = 0]
          /\ UNCHANGED <<timers, calls>>
          /\ last' = Event("send_message", chatId, 0, IF ok THEN "sent" ELSE "send_failed",
                           IF ok THEN NoError ELSE TransportError,
                           pendingRequests[chatId] # 0,
                           << <<chatId, args.message.str>> >>)

\* handleSendMessage(args); ok is whether bot.sendMessage succeeds.
HandleSendMessage(args, ok) ==
  LET error == ArgsError(args, args.message)
      chatId == args.chatId.num
  IN /\ UNCHANGED <<pendingRequests, timers, calls>>
     /\ last' = IF error # NoError
                THEN Event("send_message", 0, 0, "invalid", error, FALSE, <<>>)
                ELSE Event("send_message", chatId, 0, IF ok THEN "sent" ELSE "send_failed",
                           IF ok THEN NoError ELSE TransportError,
                           pendingRequests[chatId] # 0,
                           << <<chatId, args.message.str>> >>)

\* handleRequestUserInput(args) up to the await of bot.sendMessage.
HandleRequestUserInput(args) ==
  LET error == ArgsError(args, args.prompt)
      chatId == args.chatId.num
  IN IF error # NoError
     THEN /\ UNCHANGED <<pendingRequests, timers, calls>>
          /\ last' = Event("request_user_input", 0, 0, "invalid", error, FALSE, <<>>)
     ELSE /\ Len(calls) < MaxCalls
          /\ calls' = Append(calls, NewCall(chatId, args.prompt.str))
          /\ UNCHANGED <<pendingRequests, timers>>
          /\ last' = Event("request_user_input", chatId, Len(calls) + 1, "sending", NoError,
                           pendingRequests[chatId] # 0,
                           << <<chatId, args.prompt.str>> >>)

\* The default case of the CallToolRequestSchema handler.
UnknownTool ==
  /\ UNCHANGED <<pendingRequests, timers, calls>>
  /\ last' = Event("unknown_tool", 0, 0, "invalid",
                   McpError(ExtendedErrorCode.MethodNotFound, "Unknown tool"), FALSE, <<>>)

\* this.server.setRequestHandler(CallToolRequestSchema, ...)
CallTool(name, args, ok) ==
  /\ phase = "running"
  /\ UNCHANGED phase
  /\ IF name = "send_message" THEN HandleSendMessage(args, ok)
     ELSE IF name = "request_user_input" THEN ok /\ HandleRequestUserInput(args)
     ELSE ok /\ UnknownTool

\* Register without the setTimeout: the entry is set but no timer is armed.
Register_NoTimer(i) ==
  /\ timers' = timers
  /\ pendingRequests' = [pendingRequests EXCEPT ![calls[i].chat] = i]
  /\ calls' = [calls EXCEPT ![i].delivery = "sent", ![i].state = "pending",
                            ![i].registered = TRUE]

\* The new Promise executor, run once bot.sendMessage has resolved: the timer
\* is armed and the registry entry of the chat set, whatever it held.
Register(i) ==
  /\ timers' = Append(timers, i)
  /\ pendingRequests' = [pendingRequests EXCEPT ![calls[i].chat] = i]
  /\ calls' = [calls EXCEPT ![i].delivery = "sent", ![i].state = "pending",
                            ![i].registered = TRUE]

\* handleRequestUserInput after the await: bot.sendMessage of the prompt succeeded.
PromptSent(i) ==
  /\ phase # "exited"
  /\ calls[i].delivery = "sending"
  /\ Register(i)
  /\ UNCHANGED phase
  /\ last' = Event("prompt_sent", calls[i].chat, i, "registered", NoError,
                   pendingRequests[calls[i].chat] # 0, <<>>)

\* PromptFailed with the promise created before the send is awaited: the
\* timer and the registry entry stay behind when the send throws.
PromptFailed_LeavesEntry(i) ==
  /\ phase # "exited"
  /\ calls[i].delivery = "sending"
  /\ timers' = Append(timers, i)
  /\ pendingRequests' = [pendingRequests EXCEPT ![calls[i].chat] = i]
  /\ calls' = [calls EXCEPT ![i].delivery = "failed", ![i].state = "thrown",
                            ![i].error = TransportError]
  /\ UNCHANGED phase
  /\ last' = Event("prompt_failed", calls[i].chat, i, "thrown", TransportError,
                   pendingRequests[calls[i].chat] # 0, <<>>)

\* handleRequestUserInput after the await: bot.sendMessage of the prompt threw.
PromptFailed(i) ==
  /\ phase # "exited"
  /\ calls[i].delivery = "sending"
  /\ calls' = [calls EXCEPT ![i].delivery = "failed", ![i].state = "thrown",
                            ![i].error = TransportError]
  /\ UNCHANGED <<pendingRequests, timers, phase>>
  /\ last' = Event("prompt_failed", calls[i].chat, i, "thrown", TransportError,
                   pendingRequests[calls[i].chat] # 0, <<>>)

\* Timeout without the pendingRequests.delete.
Timeout_KeepsEntry(i) ==
  LET error == McpError(ExtendedErrorCode.Timeout, "Request timed out")
  IN /\ pendingRequests' = pendingRequests
     /\ calls' = Reject(calls, i, error)
     /\ last' = Event("timer", calls[i].chat, i, "timeout", error,
                      pendingRequests[calls[i].chat] # 0, <<>>)

\* Timeout clearing the whole registry instead of deleting its chat's entry.
Timeout_ClearsRegistry(i) ==
  LET error == McpError(ExtendedErrorCode.Timeout, "Request timed out")
  IN /\ pendingRequests' = [c \in Chats |-> 0]
     /\ calls' = Reject(calls, i, error)
     /\ last' = Event("timer", calls[i].chat, i, "timeout", error,
                      pendingRequests[calls[i].chat] # 0, <<>>)

\* The setTimeout callback of call i.
Timeout(i) ==
  LET error == McpError(ExtendedErrorCode.Timeout, "Request timed out")
  IN /\ pendingRequests' = [pendingRequests EXCEPT ![calls[i].chat] = 0]
     /\ calls' = Reject(calls, i, error)
     /\ last' = Event("timer", calls[i].chat, i, "timeout", error,
                      pendingRequests[calls[i].chat] # 0, <<>>)

\* A timer expires. Every timer has the same delay (requestTimeout), so the
\* armed timers fire in the order they were armed.
TimerFire ==
  /\ phase # "exited"
  /\ timers # <<>>
  /\ timers' = Tail(timers)
  /\ Timeout(Head(timers))
  /\ UNCHANGED phase

\* process.on('SIGINT'): await this.server.close()
Sigint ==
  /\ phase = "running"
  /\ phase' = "closed"
  /\ UNCHANGED <<pendingRequests, timers, calls>>
  /\ last' = Event("sigint", 0, 0, "closed", NoError, FALSE, <<>>)

\* process.on('SIGINT'): process.exit(0)
Exit ==
  /\ phase = "closed"
  /\ phase' = "exited"
  /\ UNCHANGED <<pendingRequests, timers, calls>>
  /\ last' = Event("exit", 0, 0, "exited", NoError, FALSE, <<>>)

\* The sendMessage promise of the echo just sent settles; the model settles it
\* before the next event. The handler neither awaits it nor attaches a catch:
\* a fulfilment goes unnoticed, and a rejection is an unhandled rejection,
\* which the runtime either only reports ("warned") or turns into an uncaught
\* exception that ends the process ("crashed").
EchoSettled(outcome) ==
  /\ phase # "exited"
  /\ last.op = "message"
  /\ last.branch = "echo"
  /\ phase' = IF outcome = "crashed" THEN "exited" ELSE phase
  /\ UNCHANGED <<pendingRequests, timers, calls>>
  /\ last' = Event("echo_settled", last.chat, 0, outcome,
                   IF outcome = "sent" THEN NoError ELSE TransportError, FALSE, <<>>)

Receive == \E msg \in Messages : OnMessage(msg)
Call == \E name \in ToolNames, args \in ToolArgs, ok \in BOOLEAN : CallTool(name, args, ok)
SendDone == \E i \in CallIds : PromptSent(i)
SendError == \E i \in CallIds : PromptFailed(i)
EchoDone == \E outcome \in {"sent", "warned", "crashed"} : EchoSettled(outcome)

Next ==
  \/ Receive
  \/ Call
  \/ SendDone
  \/ SendError
  \/ EchoDone
  \/ TimerFire
  \/ Sigint
  \/ Exit

Spec == Init /\ [][Next]_vars

\* The event loop runs the callback of every timer that stays armed.
FairSpec == Spec /\ WF_vars(TimerFire)


(***************************************************************************)
(* Properties.                                                             *)
(***************************************************************************)

\* The timers still armed, as a set of call indices.
Armed == {timers[k] : k \in 1..Len(timers)}

\* Call i has a promise that is neither resolved nor rejected.
Suspended(i) == calls[i].state = "pending"

\* C1: at most one request_user_input call is suspended per chat, and a
\* registration made while the chat already had a registry entry leaves that
\* entry with the earlier call.
C1_AtMostOnePendingPerChat ==
  /\ \A i, j \in CallIds :
       (Suspended(i) /\ Suspended(j) /\ calls[i].chat = calls[j].chat) => i = j
  /\ (last.op = "prompt_sent" /\ last.wasPending) => pendingRequests[last.chat] # last.id

\* C2: a request_user_input call for a chat that has a registry entry is
\* rejected with a Busy error, and no registration ever replaces an entry.
C2_SecondRequestIsBusy ==
  /\ (last.op = "request_user_input" /\ last.branch # "invalid" /\ last.wasPending)
       => last.error.code = "Busy"
  /\ ~(last.op = "prompt_sent" /\ last.wasPending)

\* C3: right after an authorized message with non-blank text on a chat, no
\* call registered on that chat whose timer is still armed is left suspended,
\* and the registry has no entry for the chat.
C3_ReplyResolvesEveryRegisteredCall ==
  (last.op = "message" /\ last.branch \in {"resolved", "echo"}) =>
     /\ pendingRequests[last.chat] = 0
     /\ \A i \in CallIds :
          (calls[i].chat = last.chat /\ calls[i].registered /\ i \in Armed)
            => ~Suspended(i)

\* C4: when the timer of a call fires, the call ends with the Timeout error,
\* its reject having been invoked once, and the registry has no entry for
\* the call's chat.
C4_TimeoutRejectsAndClears ==
  last.op = "timer" =>
     /\ calls[last.id].state = "thrown"
     /\ calls[last.id].error = McpError("Timeout", "Request timed out")
     /\ calls[last.id].invoked = 1
     /\ pendingRequests[last.chat] = 0
     /\ last.id \notin Armed

C4_Witness ==
  /\ last.op = "timer"
  /\ last.wasPending
  /\ calls[last.id].error.code = "Timeout"

\* C5: when the SIGINT handler has closed the server, the registry is empty
\* and no call is suspended (each pending call was rejected with a Cancelled
\* error first), and no call is suspended when the process has exited.
C5_ShutdownCancelsPending ==
  /\ last.op = "sigint" =>
       /\ \A c \in Chats : pendingRequests[c] = 0
       /\ \A i \in CallIds : ~Suspended(i)
  /\ phase = "exited" => \A i \in CallIds : ~Suspended(i)

\* An authorized chat, and a text that is blank once trimmed.
Authorized(msg) == msg.chat \in {1, 2}
Blank(msg) == ~msg.hasText \/ \A k \in 1..Len(msg.text) : msg.text[k] = " "

\* C6: handling a message from a chat outside the allow-list, whatever its
\* text and whether or not the chat has a registry entry, changes neither the
\* registry, the timers nor any call, and sends nothing.
C6_UnauthorizedMessageHasNoEffect ==
  [][\A msg \in Messages :
       (~Authorized(msg) /\ OnMessage(msg)) =>
          /\ UNCHANGED <<pendingRequests, timers, calls>>
          /\ last'.sent = <<>>]_vars

C6_Witness ==
  /\ last.op = "message"
  /\ last.branch = "unauthorized"
  /\ last.chat \notin {1, 2}
  /\ pendingRequests[last.chat] # 0

\* C7: handling an authorized message whose text is absent, empty or only
\* whitespace: if the chat has a registry entry, the entry is removed, its
\* call's timer disarmed and the call rejected with InvalidParams "Invalid
\* message type"; otherwise nothing changes; nothing is sent either way.
C7_BlankMessageRejectsOrDrops ==
  [][\A msg \in Messages :
       (Authorized(msg) /\ Blank(msg) /\ OnMessage(msg)) =>
          /\ last'.sent = <<>>
          /\ IF pendingRequests[msg.chat] # 0
             THEN LET i == pendingRequests[msg.chat]
                  IN /\ pendingRequests' = [pendingRequests EXCEPT ![msg.chat] = 0]
                     /\ \A k \in 1..Len(timers') : timers'[k] # i
                     /\ Suspended(i)
                     /\ calls'[i].state = "thrown"
                     /\ calls'[i].error = McpError("InvalidParams", "Invalid message type")
                     /\ calls'[i].invoked = 1
             ELSE UNCHANGED <<pendingRequests, timers, calls>>]_vars

C7_Witness ==
  /\ last.op = "message"
  /\ last.branch = "empty_rejected"
  /\ calls[last.id].state = "thrown"
  /\ calls[last.id].error.message = "Invalid message type"

\* C8: handling an authorized message with non-blank text on a chat that has
\* no registry entry sends exactly one message, the echo of the text, to that
\* chat and changes neither the registry, the timers nor any call.
C8_EchoWhenNothingPending ==
  [][\A msg \in Messages :
       (Authorized(msg) /\ ~Blank(msg) /\ pendingRequests[msg.chat] = 0 /\ OnMessage(msg)) =>
          /\ last'.sent = << <<msg.chat, <<"You said: ">> \o msg.text>> >>
          /\ UNCHANGED <<pendingRequests, timers, calls>>]_vars

C8_Witness ==
  /\ last.op = "message"
  /\ last.branch = "echo"
  /\ Len(last.sent) = 1
  /\ \E i \in CallIds : Suspended(i)

\* C9: a call whose prompt failed to send ended at once with the transport's
\* error, was never registered and has no timer; and every registry entry
\* belongs to a call on that chat whose prompt was sent successfully.
C9_NoEntryWithoutSentPrompt ==
  /\ \A i \in CallIds : calls[i].delivery = "failed" =>
       /\ calls[i].state = "thrown"
       /\ calls[i].error = TransportError
       /\ ~calls[i].registered
       /\ i \notin Armed
       /\ \A c \in Chats : pendingRequests[c] # i
  /\ \A c \in Chats : pendingRequests[c] # 0 =>
       /\ pendingRequests[c] \in CallIds
       /\ calls[pendingRequests[c]].chat = c
       /\ calls[pendingRequests[c]].delivery = "sent"
  /\ \A i \in Armed : calls[i].delivery = "sent"

C9_Witness ==
  /\ last.op = "prompt_failed"
  /\ calls[last.id].delivery = "failed"
  /\ \E c \in Chats : pendingRequests[c] # 0

\* C10: the resolve or reject of each call's promise is invoked at most once,
\* so a call that returned a text was not also timed out or rejected.
C10_HandleInvokedAtMostOnce ==
  \A i \in CallIds :
    /\ calls[i].invoked <= 1
    /\ (calls[i].state = "returned" => calls[i].invoked = 1)
    /\ (calls[i].invoked = 1 => calls[i].state \in {"returned", "thrown"})

C10_Witness ==
  \E i, j \in CallIds :
    /\ calls[i].chat = calls[j].chat
    /\ calls[i].state = "returned" /\ calls[i].invoked = 1
    /\ calls[j].state = "thrown" /\ calls[j].error.code = "Timeout" /\ calls[j].invoked = 1
    /\ phase = "exited"

\* Arguments that pass the handlers' checks: an object with a numeric chatId
\* and a string text (args.message or args.prompt).
WellTyped(args, text) ==
  /\ args \in {JSObject(JSNumber(c), JSString(p), JSString(p)) : c \in Chats, p \in Prompts}
  /\ text \in {JSString(p) : p \in Prompts}

\* The arguments that fail the checks as send_message and as request_user_input arguments.
IllTypedSends == {args \in ToolArgs : ~WellTyped(args, args.message)}
IllTypedRequests == {args \in ToolArgs : ~WellTyped(args, args.prompt)}

\* C11: a send_message or request_user_input call whose arguments are missing,
\* not an object or mistyped throws InvalidParams, calls bot.sendMessage not
\* at all and changes neither the registry, the timers nor any call.
C11_InvalidArgumentsHaveNoEffect ==
  [][last'.op \in {"send_message", "request_user_input"} =>
       \A ok \in BOOLEAN :
          (\/ \E args \in IllTypedSends : CallTool("send_message", args, ok)
           \/ \E args \in IllTypedRequests : CallTool("request_user_input", args, ok)) =>
             /\ last'.error.code = "InvalidParams"
             /\ last'.sent = <<>>
             /\ UNCHANGED <<pendingRequests, timers, calls>>]_vars

C11_Witness ==
  /\ last.op = "send_message"
  /\ last.error = McpError("InvalidParams", "Invalid argument types")
  /\ last.sent = <<>>
  /\ \E c \in Chats : pendingRequests[c] # 0

\* C12: a call's timer is armed only while the call is suspended: the message
\* that resolves or rejects a call disarms its timer in the same step, so a
\* timer that fires finds its call unsettled and is its only settlement.
C12_TimerArmedOnlyWhileSuspended ==
  /\ \A i \in Armed : Suspended(i) /\ calls[i].invoked = 0
  /\ (last.op = "message" /\ last.id # 0) => last.id \notin Armed
  /\ last.op = "timer" => calls[last.id].error.code = "Timeout"

C12_Witness ==
  /\ last.op = "message"
  /\ last.branch = "empty_rejected"
  /\ last.id \notin Armed
  /\ Armed # {}

\* C13: a timer that fires removes a registry entry only if the entry is the
\* one of the timer's own call.
C13_TimerRemovesOnlyItsOwnEntry ==
  [][TimerFire =>
       \A c \in Chats :
          pendingRequests'[c] # pendingRequests[c] => pendingRequests[c] = Head(timers)]_vars

\* C14: the handler run that resolves a call with a message's text sends
\* nothing: a reply is never echoed as well.
C14_ReplyIsNotEchoed ==
  (last.op = "message" /\ last.id # 0 /\ calls[last.id].state = "returned")
    => last.sent = <<>>

C14_Witness ==
  /\ last.op = "message"
  /\ last.id # 0
  /\ calls[last.id].state = "returned"
  /\ calls[last.id].text = <<" ", "a">>

\* The messages a chat can send; a step with last'.op = "message" handled one
\* of the messages of chat last'.chat.
MessagesOf == [c \in Chats |-> {msg \in Messages : msg.chat = c}]

\* Call i is the only request_user_input call made so far on chat c.
OnlyCallOn(c, i) == {j \in CallIds : calls[j].chat = c} = {i}

\* C15: on a chat with a single request_user_input call, an authorized message
\* that arrives while the call is suspended settles it (with the text, or with
\* InvalidParams if the text is blank) and removes the entry; an authorized
\* message that arrives once the call is settled changes no call, registry
\* entry or timer and is echoed if its text is not blank, dropped if it is.
C15_OnlyFirstMessageIsTheReply ==
  [][last'.op = "message" =>
       \A msg \in MessagesOf[last'.chat] :
          (Authorized(msg) /\ OnMessage(msg)) =>
             \A i \in CallIds :
                OnlyCallOn(msg.chat, i) =>
                   IF Suspended(i)
                   THEN /\ pendingRequests'[msg.chat] = 0
                        /\ calls'[i].invoked = 1
                        /\ IF Blank(msg)
                           THEN calls'[i].state = "thrown"
                           ELSE calls'[i].state = "returned" /\ calls'[i].text = msg.text
                   ELSE IF calls[i].state \in {"returned", "thrown"}
                   THEN /\ UNCHANGED <<pendingRequests, timers, calls>>
                        /\ last'.sent = IF Blank(msg) THEN <<>>
                                        ELSE << <<msg.chat, <<"You said: ">> \o msg.text>> >>
                   ELSE TRUE]_vars

C15_Witness ==
  /\ last.op = "message"
  /\ last.branch = "echo"
  /\ \E i \in CallIds :
       /\ OnlyCallOn(last.chat, i)
       /\ calls[i].state = "returned"
       /\ calls[i].invoked = 1

\* C16: a call returns a text only in a step that handles a message, and then
\* the message is from the call's own chat, which is allow-listed, the call
\* held the chat's registry entry, and the text returned is the message's text
\* exactly as received.
C16_ResultIsVerbatimReplyOnSameChat ==
  [][\A i \in CallIds :
       (calls[i].state # "returned" /\ calls'[i].state = "returned") =>
          /\ calls[i].registered
          /\ pendingRequests[calls[i].chat] = i
          /\ calls[i].chat \in {1, 2}
          /\ \E msg \in Messages : OnMessage(msg)
          /\ \A msg \in Messages :
               OnMessage(msg) =>
                  /\ msg.chat = calls[i].chat
                  /\ msg.hasText
                  /\ calls'[i].text = msg.text]_vars

C16_Witness ==
  \E i, j \in CallIds :
    /\ calls[i].state = "returned"
    /\ calls[i].text = <<" ", "a">>
    /\ calls[j].chat # calls[i].chat
    /\ Suspended(j)

\* C17: a send_message call, whatever its arguments and whether the send
\* succeeds or fails, changes neither the registry, the timers nor any call.
C17_SendLeavesRegistryAlone ==
  [][last'.op = "send_message" =>
       \A args \in ToolArgs, ok \in BOOLEAN :
          CallTool("send_message", args, ok) =>
             UNCHANGED <<pendingRequests, timers, calls>>]_vars

C17_Witness ==
  /\ last.op = "send_message"
  /\ last.branch = "send_failed"
  /\ pendingRequests[last.chat] # 0
  /\ Suspended(pendingRequests[last.chat])

\* C18: a failed echo send is not escalated: it changes neither the registry,
\* the timers nor any call, and the server goes on running as before.
C18_EchoFailureIsNotEscalated ==
  [][\A outcome \in {"warned", "crashed"} :
       EchoSettled(outcome) => UNCHANGED <<pendingRequests, timers, calls, phase>>]_vars

\* C19: while the process is not shut down and armed timers fire, every call
\* whose prompt was sent and that is suspended is eventually settled (with a
\* text, InvalidParams or Timeout) or the process has left the running phase.
C19_EveryRegisteredCallCompletes ==
  \A i \in 1..MaxCalls :
    (i \in CallIds /\ calls[i].registered /\ Suspended(i))
      ~> (phase # "running" \/ (i \in CallIds /\ calls[i].state \in {"returned", "thrown"}))

C19_Witness ==
  /\ phase = "running"
  /\ \E i, j \in CallIds :
       /\ i # j
       /\ calls[i].chat = calls[j].chat
       /\ calls[i].state = "thrown" /\ calls[i].error.code = "Timeout"
       /\ calls[j].state = "returned"
       /\ i < j

\* The registry entry of chat d, the calls made on d and their timers are the
\* same after the step as before it.
Untouched(d) ==
  /\ pendingRequests'[d] = pendingRequests[d]
  /\ \A i \in CallIds :
       calls[i].chat = d => (calls'[i] = calls[i] /\ (i \in Armed <=> i \in Armed'))

\* C20: a message, a timer expiry, a request_user_input call or the outcome of
\* its prompt's send concerns one chat and leaves the registry entry, the
\* calls and the timers of every other chat as they were.
C20_ChatsAreIsolated ==
  [][/\ last'.op = "message" =>
          \A msg \in MessagesOf[last'.chat] :
             OnMessage(msg) => \A d \in Chats \ {msg.chat} : Untouched(d)
     /\ TimerFire => \A d \in Chats \ {calls[Head(timers)].chat} : Untouched(d)
     /\ last'.op \in {"prompt_sent", "prompt_failed"} =>
          \A i \in CallIds :
             (PromptSent(i) \/ PromptFailed(i)) => \A d \in Chats \ {calls[i].chat} : Untouched(d)
     /\ last'.op = "request_user_input" =>
          \A args \in ToolArgs :
             (WellTyped(args, args.prompt) /\ CallTool("request_user_input", args, TRUE))
               => \A d \in Chats \ {args.chatId.num} : Untouched(d)]_vars

C20_Witness ==
  /\ Len(calls) = 2
  /\ calls[1].chat # calls[2].chat
  /\ last.op = "message"
  /\ last.id = 1
  /\ calls[1].state = "returned"
  /\ calls[2].state = "returned"
  /\ timers = <<>>

====
